---------------------------- MODULE Spec2Model ----------------------------
(***************************************************************************)
(* Ticket tracking and API request log backend (FastAPI + SQLAlchemy on    *)
(* SQLite): the rule-based classifier, the ticket and request-log CRUD     *)
(* operations of app/crud.py and their filter/sort/paginate queries.       *)
(*                                                                         *)
(* Text is a sequence of one-character strings.  A timestamp is a natural  *)
(* number read from the clock `now`.                                       *)
(***************************************************************************)
EXTENDS Integers, Sequences, FiniteSets, TLC

VARIABLES
    tickets,     \* table "tickets": id -> row
    requests,    \* table "api_requests": id -> row
    now,         \* the store's clock, func.now()
    last,        \* the call in progress or the last call returned, with its result
    deletedIds,  \* history: ticket ids for which delete_ticket has returned True
    sess         \* requests handled at the same time: session -> the call's progress

vars == <<tickets, requests, now, last, deletedIds, sess>>

-----------------------------------------------------------------------------
(* Bounds of the model *)

\* Tickets stored at once, and the largest ticket id, in the ticket service's runs
MaxTickets == 1
\* Rows of the table a query reads, and request records stored at once
MaxRows == 2
\* The last reading of the clock
MaxTime == 1
\* The largest offset and the largest page size a query asks for
MaxSkip == 1
MaxLimit == 2
\* Word fragments in a title handed to the classifier
MaxFrags == 1

-----------------------------------------------------------------------------
(* Text *)

\* Python None in a text-valued place (no text is a sequence holding it).
NoneStr == <<"<None>">>
\* SQL NULL / Python None in a timestamp or integer place.
NoneInt == -1
\* Python None in an enum-valued place.
NoneEnum == "None"
\* Python None returned where a row is expected (Optional[models.Ticket]).
None == [none |-> TRUE]

Upper == <<"A","B","C","D","E","F","G","H","I","J","K","L","M",
           "N","O","P","Q","R","S","T","U","V","W","X","Y","Z">>
Lowers == <<"a","b","c","d","e","f","g","h","i","j","k","l","m",
            "n","o","p","q","r","s","t","u","v","w","x","y","z">>

\* str.lower() / str.upper() on one character
LowerChar(c) ==
    IF \E i \in 1..26 : Upper[i] = c
    THEN Lowers[CHOOSE i \in 1..26 : Upper[i] = c]
    ELSE c

UpperChar(c) ==
    IF \E i \in 1..26 : Lowers[i] = c
    THEN Upper[CHOOSE i \in 1..26 : Lowers[i] = c]
    ELSE c

StrLower(s) == [i \in 1..Len(s) |-> LowerChar(s[i])]

StrUpper(s) == [i \in 1..Len(s) |-> UpperChar(s[i])]

\* Python `k in text`
StrContains(text, k) ==
    \E i \in 0..(Len(text) - Len(k)) : SubSeq(text, i + 1, i + Len(k)) = k

-----------------------------------------------------------------------------
(* app/enums.py *)

Category == {"bug", "feature_request", "support", "billing", "other"}
Priority == {"low", "medium", "high"}
Status == {"open", "resolved"}

-----------------------------------------------------------------------------
(* crud.classify_text *)

BugKeys == << <<"e","r","r","o","r">>,
              <<"e","x","c","e","p","t","i","o","n">>,
              <<"t","r","a","c","e","b","a","c","k">>,
              <<"s","t","a","c","k","t","r","a","c","e">> >>

FeatureKeys == << <<"f","e","a","t","u","r","e">>,
                  <<"e","n","h","a","n","c","e","m","e","n","t">>,
                  <<"a","d","d">>,
                  <<"s","u","p","p","o","r","t">> >>

BillingKeys == << <<"b","i","l","l">>,
                  <<"i","n","v","o","i","c","e">>,
                  <<"p","a","y","m","e","n","t">>,
                  <<"c","h","a","r","g","e">> >>

HighKeys == << <<"u","r","g","e","n","t">>,
               <<"a","s","a","p">>,
               <<"c","r","i","t","i","c","a","l">>,
               <<"d","o","w","n">> >>

\* any(k in text for k in keys)
AnyIn(keys, text) == \E i \in 1..Len(keys) : StrContains(text, keys[i])

ClassifyJoin(title, description) == StrLower(title \o <<" ">> \o description)

\* The bug rule checked after the feature rule
ClassifyCategoryFeatureFirst(text) ==
    IF AnyIn(FeatureKeys, text) THEN "feature_request"
    ELSE IF AnyIn(BugKeys, text) THEN "bug"
    ELSE IF AnyIn(BillingKeys, text) THEN "billing"
    ELSE "support"

ClassifyCategory(text) ==
    IF AnyIn(BugKeys, text) THEN "bug"
    ELSE IF AnyIn(FeatureKeys, text) THEN "feature_request"
    ELSE IF AnyIn(BillingKeys, text) THEN "billing"
    ELSE "support"

\* The last keyword of the priority rule left out
ClassifyPriorityShortList(text) ==
    IF AnyIn(SubSeq(HighKeys, 1, Len(HighKeys) - 1), text) THEN "high" ELSE "medium"

ClassifyPriority(text) ==
    IF AnyIn(HighKeys, text) THEN "high" ELSE "medium"

classify_text(title, description) ==
    LET text == ClassifyJoin(title, description)
    IN  <<ClassifyCategory(text), ClassifyPriority(text)>>

-----------------------------------------------------------------------------
(* The store: SQLite tables of app/models.py *)

\* Ids the callers try: every id a ticket can have, and one no ticket ever has.
TicketIds == 1..(MaxTickets + 1)

\* Integer primary key on SQLite (no AUTOINCREMENT): the id of a new row is one
\* more than the largest id in the table, 1 in an empty table.
NextId(table) ==
    IF DOMAIN table = {} THEN 1
    ELSE (CHOOSE m \in DOMAIN table : \A k \in DOMAIN table : k <= m) + 1

\* Columns of tickets declared nullable=False.
TicketNotNull == {"title", "description", "category", "priority", "status", "created_at"}

\* NULL as the column's type represents it.
NullOf(f) ==
    IF f \in {"title", "description", "reporter_email"} THEN NoneStr
    ELSE IF f \in {"id", "created_at", "resolved_at"} THEN NoneInt
    ELSE NoneEnum

\* The row of a models.Ticket built from keyword arguments and inserted: unset
\* columns take their defaults (created_at the server's clock, resolved_at NULL).
Ticket(id, title, description, reporter_email, category, priority, status, t) ==
    [id |-> id, title |-> title, description |-> description,
     category |-> category, priority |-> priority, status |-> status,
     reporter_email |-> reporter_email, created_at |-> t, resolved_at |-> NoneInt]

\* db.add(row); db.commit()
Insert(table, row) ==
    [k \in DOMAIN table \cup {row.id} |-> IF k = row.id THEN row ELSE table[k]]

\* db.delete(row); db.commit()
Remove(table, id) == [k \in DOMAIN table \ {id} |-> table[k]]

-----------------------------------------------------------------------------
(* Ticket service: crud.py *)

\* The classifier's result not passed on: the columns' defaults are stored
create_ticket_defaults(db, ticket_in, t) ==
    Ticket(NextId(db), ticket_in.title, ticket_in.description,
           ticket_in.reporter_email, "other", "medium", "open", t)

create_ticket(db, ticket_in, t) ==
    LET c == classify_text(ticket_in.title, ticket_in.description)
    IN  Ticket(NextId(db), ticket_in.title, ticket_in.description,
               ticket_in.reporter_email, c[1], c[2], "open", t)

get_ticket(db, ticket_id) ==
    IF ticket_id \in DOMAIN db THEN db[ticket_id] ELSE None

\* The status written without the timestamp
resolve_ticket_status_only(ticket, t) ==
    [ticket EXCEPT !.status = "resolved"]

\* resolve_ticket's writes to the loaded row
resolve_ticket(ticket, t) ==
    [ticket EXCEPT !.status = "resolved", !.resolved_at = t]

\* update_ticket's writes: setattr for every field of model_dump(exclude_unset=True)
update_ticket(ticket, update_data) ==
    [f \in DOMAIN ticket |->
        IF f \in DOMAIN update_data THEN update_data[f] ELSE ticket[f]]

\* db.commit() of a changed ticket row fails with IntegrityError when a
\* NOT NULL column holds NULL.
CommitFails(row) == \E f \in TicketNotNull : row[f] = NullOf(f)

-----------------------------------------------------------------------------
(* Request-log service: crud.py *)

\* Every new record stored under the first id
create_api_request_first_id(db, api_request, t) ==
    [id |-> 1, method |-> api_request.method, path |-> api_request.path,
     response_code |-> api_request.response_code,
     response_time |-> api_request.response_time,
     user_agent |-> api_request.user_agent, ip_address |-> api_request.ip_address,
     created_at |-> t]

\* The row of a models.ApiRequest built by create_api_request and inserted.
create_api_request(db, api_request, t) ==
    [id |-> NextId(db), method |-> api_request.method, path |-> api_request.path,
     response_code |-> api_request.response_code,
     response_time |-> api_request.response_time,
     user_agent |-> api_request.user_agent, ip_address |-> api_request.ip_address,
     created_at |-> t]

\* A lookup that matches no row falling back to any stored row
get_api_request_any(db, request_id) ==
    IF request_id \in DOMAIN db THEN db[request_id]
    ELSE IF DOMAIN db # {} THEN db[CHOOSE k \in DOMAIN db : TRUE]
    ELSE None

get_api_request(db, request_id) ==
    IF request_id \in DOMAIN db THEN db[request_id] ELSE None

\* Ids the callers of GET /api/requests/{request_id} try
RequestIds == 1..(MaxRows + 1)

-----------------------------------------------------------------------------
(* Query building: filter, count, order, offset/limit *)

\* SQL LIKE, compared without regard to letter case: % matches any run of
\* characters, _ any one character, there is no escape character.
RECURSIVE Like(_, _)
Like(s, p) ==
    IF p = <<>> THEN s = <<>>
    ELSE IF Head(p) = "%"
         THEN Like(s, Tail(p)) \/ (s # <<>> /\ Like(Tail(s), p))
         ELSE /\ s # <<>>
              /\ Head(p) = "_" \/ LowerChar(Head(s)) = LowerChar(Head(p))
              /\ Like(Tail(s), Tail(p))

\* column.ilike(f"%{term}%")
ILikeContains(column, term) == Like(column, <<"%">> \o term \o <<"%">>)

\* Python truth of an optional text / enum / integer argument: `if search:`
TruthyStr(v) == v # NoneStr /\ v # <<>>
TruthyEnum(v) == v # NoneEnum /\ v # ""
TruthyInt(v) == v # NoneInt /\ v # 0

\* The WHERE clause search_and_filter_tickets builds
TicketWhere(row, q) ==
    /\ TruthyStr(q.search) =>
          ILikeContains(row.title, q.search) \/ ILikeContains(row.description, q.search)
    /\ TruthyEnum(q.category) => row.category = q.category
    /\ TruthyEnum(q.status) => row.status = q.status
    /\ TruthyEnum(q.priority) => row.priority = q.priority

\* The WHERE clause list_and_filter_api_requests builds
ApiRequestWhere(row, q) ==
    /\ TruthyStr(q.method) => row.method = StrUpper(q.method)
    /\ TruthyInt(q.response_code) => row.response_code = q.response_code
    /\ q.min_response_time # NoneInt => row.response_time >= q.min_response_time
    /\ q.max_response_time # NoneInt => row.response_time <= q.max_response_time
    /\ TruthyStr(q.path_contains) => ILikeContains(row.path, q.path_contains)

\* The priority column holds the enum's name as text: ORDER BY priority compares
\* text, "high" < "low" < "medium".
PriorityText(p) == CASE p = "high" -> 1 [] p = "low" -> 2 [] p = "medium" -> 3

\* An unlisted key falling back to the other listed column
TicketSortColFallbackPriority(sort_by) ==
    IF sort_by = "created_at" THEN "created_at" ELSE "priority"

\* The column the ticket search orders by
TicketSortCol(sort_by) ==
    IF sort_by = "created_at" THEN "created_at"
    ELSE IF sort_by = "priority" THEN "priority"
    ELSE "created_at"

\* The column the request list orders by
ApiRequestSortCol(sort_by) ==
    IF sort_by = "response_time" THEN "response_time"
    ELSE IF sort_by = "created_at" THEN "created_at"
    ELSE "created_at"

SortKey(row, col) == IF col = "priority" THEN PriorityText(row.priority) ELSE row[col]

\* The store's row orders: among rows with equal ORDER BY values SQL fixes no
\* order, and the store returns them in an order of its own choice.
ScanOrders(db) ==
    {f \in [1..Cardinality(DOMAIN db) -> DOMAIN db] :
        \A i, j \in DOMAIN f : i # j => f[i] # f[j]}

Pos(scan, id) == CHOOSE i \in DOMAIN scan : scan[i] = id

\* sort_col.asc() if sort_order == "asc" else sort_col.desc()
Before(a, b, col, sort_order, scan) ==
    LET ka == SortKey(a, col)
        kb == SortKey(b, col)
    IN  \/ IF sort_order = "asc" THEN ka < kb ELSE ka > kb
        \/ ka = kb /\ Pos(scan, a.id) < Pos(scan, b.id)

\* q.order_by(...): the ids of the rows of `ids` in the order the store returns them
OrderBy(db, ids, col, sort_order, scan) ==
    SortSeq(SelectSeq(scan, LAMBDA id : id \in ids),
            LAMBDA x, y : Before(db[x], db[y], col, sort_order, scan))

\* The limit applied before the offset
LimitThenOffset(rows, skip, limit) ==
    SubSeq(SubSeq(rows, 1, IF limit < Len(rows) THEN limit ELSE Len(rows)),
           skip + 1, IF limit < Len(rows) THEN limit ELSE Len(rows))

\* q.offset(skip).limit(limit).all()
OffsetLimit(rows, skip, limit) ==
    SubSeq(rows, skip + 1, IF skip + limit < Len(rows) THEN skip + limit ELSE Len(rows))

\* q.count()
Count(ids) == Cardinality(ids)

\* The count taken after offset and limit
search_and_filter_tickets_count_page(db, q, scan) ==
    LET matched == {id \in DOMAIN db : TicketWhere(db[id], q)}
        ordered == OrderBy(db, matched, TicketSortCol(q.sort_by), q.sort_order, scan)
        rows == [i \in DOMAIN ordered |-> db[ordered[i]]]
        items == OffsetLimit(rows, q.skip, q.limit)
    IN  [items |-> items, total |-> Len(items)]

search_and_filter_tickets(db, q, scan) ==
    LET matched == {id \in DOMAIN db : TicketWhere(db[id], q)}
        total == Count(matched)
        ordered == OrderBy(db, matched, TicketSortCol(q.sort_by), q.sort_order, scan)
        rows == [i \in DOMAIN ordered |-> db[ordered[i]]]
    IN  [items |-> OffsetLimit(rows, q.skip, q.limit), total |-> total]

list_and_filter_api_requests(db, q, scan) ==
    LET matched == {id \in DOMAIN db : ApiRequestWhere(db[id], q)}
        total == Count(matched)
        ordered == OrderBy(db, matched, ApiRequestSortCol(q.sort_by), q.sort_order, scan)
        rows == [i \in DOMAIN ordered |-> db[ordered[i]]]
    IN  [items |-> OffsetLimit(rows, q.skip, q.limit), total |-> total]

-----------------------------------------------------------------------------
(* Requests of the callers *)

\* schemas.TicketCreate bodies
TicketInputs ==
    { [title |-> <<"e","r","r">>, description |-> <<"o","r">>,
       reporter_email |-> <<"u","@","x">>],
      [title |-> <<"A","d","d">>, description |-> <<"d","o","w","n">>,
       reporter_email |-> NoneStr] }

\* schemas.TicketUpdate bodies, as model_dump(exclude_unset=True) gives them:
\* the fields the body names, a field named with null included.
UpdatePayloads ==
    { <<>>,
      [status |-> "resolved"],
      [title |-> <<"n","e","w">>, priority |-> "low", status |-> "open"],
      [title |-> NoneStr],
      [reporter_email |-> NoneStr, category |-> "other"] }

\* schemas.ApiRequestCreate bodies (response_time in whole units)
ApiRequestInputs ==
    { [method |-> <<"G","E","T">>, path |-> <<"/","a">>, response_code |-> 200,
       response_time |-> 0, user_agent |-> NoneStr, ip_address |-> NoneStr],
      [method |-> <<"g","e","t">>, path |-> <<"/","B">>, response_code |-> 404,
       response_time |-> 2, user_agent |-> <<"m">>, ip_address |-> <<"1">>] }

\* Filters of GET /api/tickets/search
TicketFilters ==
    { [search |-> NoneStr, category |-> NoneEnum, status |-> NoneEnum, priority |-> NoneEnum],
      [search |-> <<"R">>, category |-> NoneEnum, status |-> NoneEnum, priority |-> NoneEnum],
      [search |-> <<"o">>, category |-> NoneEnum, status |-> "open", priority |-> NoneEnum],
      [search |-> <<>>, category |-> "support", status |-> NoneEnum, priority |-> NoneEnum],
      [search |-> NoneStr, category |-> NoneEnum, status |-> "resolved", priority |-> "high"],
      [search |-> NoneStr, category |-> "", status |-> NoneEnum, priority |-> "high"],
      [search |-> <<"_">>, category |-> NoneEnum, status |-> NoneEnum, priority |-> NoneEnum] }

\* Filters of GET /api/requests
ApiRequestFilters ==
    { [method |-> NoneStr, response_code |-> NoneInt, min_response_time |-> NoneInt,
       max_response_time |-> NoneInt, path_contains |-> NoneStr],
      [method |-> <<"g","e","t">>, response_code |-> NoneInt, min_response_time |-> NoneInt,
       max_response_time |-> NoneInt, path_contains |-> NoneStr],
      [method |-> NoneStr, response_code |-> 404, min_response_time |-> NoneInt,
       max_response_time |-> NoneInt, path_contains |-> NoneStr],
      [method |-> NoneStr, response_code |-> NoneInt, min_response_time |-> 0,
       max_response_time |-> 1, path_contains |-> NoneStr],
      [method |-> NoneStr, response_code |-> 0, min_response_time |-> 1,
       max_response_time |-> NoneInt, path_contains |-> <<"b">>],
      [method |-> <<"G","E","T">>, response_code |-> 404, min_response_time |-> NoneInt,
       max_response_time |-> NoneInt, path_contains |-> <<>>],
      [method |-> NoneStr, response_code |-> NoneInt, min_response_time |-> NoneInt,
       max_response_time |-> NoneInt, path_contains |-> <<"_">>] }

\* sort_by and sort_order are free text; skip >= 0 and 1 <= limit <= 1000 are
\* enforced by the endpoints' Query(...) declarations.
TicketSortBys == {"created_at", "priority", "title"}
ApiRequestSortBys == {"created_at", "response_time", "path"}
SortOrders == {"asc", "desc", "ASC"}
Skips == 0..MaxSkip
Limits == 1..MaxLimit

-----------------------------------------------------------------------------
(* Sessions of requests handled at the same time (endpoints declared with def
   run in worker threads, each with the session get_db gives it) *)

\* Two requests at a time
Sessions == {1, 2}

\* A worker with no request yet
NoCall ==
    [pc |-> "idle", op |-> "none", id |-> 0, arg |-> <<>>, loaded |-> None,
     ret |-> None, exit |-> "none", order |-> 0, stamp |-> NoneInt, closes |-> 0]

-----------------------------------------------------------------------------
(* Ticket endpoints: one request handled from start to end.  The endpoint's
   session comes from get_db; the result stays in `last` until the response is
   sent and get_db closes the session. *)

\* No request is being handled.
Idle == [op |-> "none"]

\* get_db after the yield: the response is out, the session is closed.
CloseSession ==
    /\ last # Idle
    /\ last' = Idle
    /\ UNCHANGED <<tickets, requests, now, deletedIds, sess>>

CreateTicket ==
    /\ last = Idle
    /\ \E ticket_in \in TicketInputs :
           /\ NextId(tickets) <= MaxTickets
           /\ LET db_obj == create_ticket(tickets, ticket_in, now)
              IN  /\ tickets' = Insert(tickets, db_obj)
                  /\ last' = [op |-> "create_ticket", arg |-> ticket_in,
                              ret |-> tickets'[db_obj.id], raised |-> FALSE]
           /\ UNCHANGED <<requests, now, deletedIds, sess>>

GetTicket ==
    /\ last = Idle
    /\ \E ticket_id \in TicketIds :
           /\ last' = [op |-> "get_ticket", id |-> ticket_id,
                       ret |-> get_ticket(tickets, ticket_id), raised |-> FALSE]
           /\ UNCHANGED <<tickets, requests, now, deletedIds, sess>>

ResolveTicket ==
    /\ last = Idle
    /\ \E ticket_id \in TicketIds :
           LET ticket == get_ticket(tickets, ticket_id)
           IN  /\ IF ticket = None
                  THEN /\ last' = [op |-> "resolve_ticket", id |-> ticket_id,
                                   ret |-> None, raised |-> FALSE]
                       /\ UNCHANGED tickets
                  ELSE /\ tickets' = Insert(tickets, resolve_ticket(ticket, now))
                       /\ last' = [op |-> "resolve_ticket", id |-> ticket_id,
                                   ret |-> tickets'[ticket_id], raised |-> FALSE]
               /\ UNCHANGED <<requests, now, deletedIds, sess>>

UpdateTicket ==
    /\ last = Idle
    /\ \E ticket_id \in TicketIds, ticket_update \in UpdatePayloads :
           LET ticket == get_ticket(tickets, ticket_id)
           IN  /\ IF ticket = None
                  THEN /\ last' = [op |-> "update_ticket", id |-> ticket_id,
                                   arg |-> ticket_update, ret |-> None, raised |-> FALSE]
                       /\ UNCHANGED tickets
                  ELSE LET changed == update_ticket(ticket, ticket_update)
                       IN  IF CommitFails(changed)
                           THEN /\ last' = [op |-> "update_ticket", id |-> ticket_id,
                                            arg |-> ticket_update, ret |-> None,
                                            raised |-> TRUE]
                                /\ UNCHANGED tickets
                           ELSE /\ tickets' = Insert(tickets, changed)
                                /\ last' = [op |-> "update_ticket", id |-> ticket_id,
                                            arg |-> ticket_update,
                                            ret |-> tickets'[ticket_id], raised |-> FALSE]
               /\ UNCHANGED <<requests, now, deletedIds, sess>>

DeleteTicket ==
    /\ last = Idle
    /\ \E ticket_id \in TicketIds :
           LET ticket == get_ticket(tickets, ticket_id)
           IN  /\ IF ticket = None
                  THEN /\ last' = [op |-> "delete_ticket", id |-> ticket_id,
                                   ret |-> FALSE, raised |-> FALSE]
                       /\ UNCHANGED <<tickets, deletedIds>>
                  ELSE /\ tickets' = Remove(tickets, ticket_id)
                       /\ deletedIds' = deletedIds \cup {ticket_id}
                       /\ last' = [op |-> "delete_ticket", id |-> ticket_id,
                                   ret |-> TRUE, raised |-> FALSE]
               /\ UNCHANGED <<requests, now, sess>>

SearchTickets ==
    /\ last = Idle
    /\ \E f \in TicketFilters, sort_by \in TicketSortBys, sort_order \in SortOrders,
          skip \in Skips, limit \in Limits, scan \in ScanOrders(tickets) :
           LET q == [search |-> f.search, category |-> f.category, status |-> f.status,
                     priority |-> f.priority, sort_by |-> sort_by,
                     sort_order |-> sort_order, skip |-> skip, limit |-> limit]
           IN  /\ last' = [op |-> "search_tickets", arg |-> q, scan |-> scan,
                           ret |-> search_and_filter_tickets(tickets, q, scan),
                           raised |-> FALSE]
               /\ UNCHANGED <<tickets, requests, now, deletedIds, sess>>

-----------------------------------------------------------------------------
(* API request endpoints *)

CreateApiRequest ==
    /\ last = Idle
    /\ \E request_in \in ApiRequestInputs :
           /\ NextId(requests) <= MaxRows
           /\ LET db_obj == create_api_request(requests, request_in, now)
              IN  /\ requests' = Insert(requests, db_obj)
                  /\ last' = [op |-> "create_api_request", arg |-> request_in,
                              ret |-> requests'[db_obj.id], raised |-> FALSE]
           /\ UNCHANGED <<tickets, now, deletedIds, sess>>

GetApiRequest ==
    /\ last = Idle
    /\ \E request_id \in RequestIds :
           /\ last' = [op |-> "get_api_request", id |-> request_id,
                       ret |-> get_api_request(requests, request_id), raised |-> FALSE]
           /\ UNCHANGED <<tickets, requests, now, deletedIds, sess>>

ListApiRequests ==
    /\ last = Idle
    /\ \E f \in ApiRequestFilters, sort_by \in ApiRequestSortBys, sort_order \in SortOrders,
          skip \in Skips, limit \in Limits, scan \in ScanOrders(requests) :
           LET q == [method |-> f.method, response_code |-> f.response_code,
                     min_response_time |-> f.min_response_time,
                     max_response_time |-> f.max_response_time,
                     path_contains |-> f.path_contains, sort_by |-> sort_by,
                     sort_order |-> sort_order, skip |-> skip, limit |-> limit]
           IN  /\ last' = [op |-> "list_api_requests", arg |-> q, scan |-> scan,
                           ret |-> list_and_filter_api_requests(requests, q, scan),
                           raised |-> FALSE]
               /\ UNCHANGED <<tickets, requests, now, deletedIds, sess>>

-----------------------------------------------------------------------------
\* The store's clock advances (CURRENT_TIMESTAMP counts whole seconds).
Tick ==
    /\ now < MaxTime
    /\ now' = now + 1
    /\ UNCHANGED <<tickets, requests, last, deletedIds, sess>>

Init ==
    /\ tickets = <<>>
    /\ requests = <<>>
    /\ now = 0
    /\ last = Idle
    /\ deletedIds = {}
    /\ sess = [s \in Sessions |-> NoCall]

Next ==
    \/ CreateTicket
    \/ GetTicket
    \/ ResolveTicket
    \/ UpdateTicket
    \/ DeleteTicket
    \/ CloseSession
    \/ Tick

Spec == Init /\ [][Next]_vars

-----------------------------------------------------------------------------
(* The single-record endpoints of both services, within one second of the clock *)

NextLog ==
    \/ CreateTicket
    \/ GetTicket
    \/ ResolveTicket
    \/ UpdateTicket
    \/ DeleteTicket
    \/ CreateApiRequest
    \/ GetApiRequest
    \/ CloseSession

SpecLog == Init /\ [][NextLog]_vars

-----------------------------------------------------------------------------
(* The two query endpoints alone, over a table filled by the create endpoint *)

\* The ticket tables of at most n rows that POST /api/tickets fills as the clock
\* runs, each with the clock's reading at its last insert.
RECURSIVE TicketStores(_)
TicketStores(n) ==
    IF n = 0 THEN {[db |-> <<>>, t |-> 0]}
    ELSE TicketStores(n - 1) \cup
         UNION {{[db |-> Insert(s.db, create_ticket(s.db, ticket_in, t)), t |-> t] :
                    ticket_in \in TicketInputs, t \in s.t..MaxTime} :
                s \in TicketStores(n - 1)}

\* The request tables of at most n rows that POST /api/requests fills.
RECURSIVE ApiRequestStores(_)
ApiRequestStores(n) ==
    IF n = 0 THEN {[db |-> <<>>, t |-> 0]}
    ELSE ApiRequestStores(n - 1) \cup
         UNION {{[db |-> Insert(s.db, create_api_request(s.db, request_in, t)), t |-> t] :
                    request_in \in ApiRequestInputs, t \in s.t..MaxTime} :
                s \in ApiRequestStores(n - 1)}

\* A query reads one table: the other one is left empty.
InitQuery ==
    /\ last = Idle
    /\ deletedIds = {}
    /\ sess = [s \in Sessions |-> NoCall]
    /\ \/ \E s \in TicketStores(MaxRows) :
             tickets = s.db /\ requests = <<>> /\ now = s.t
       \/ \E s \in ApiRequestStores(MaxRows) :
             tickets = <<>> /\ requests = s.db /\ now = s.t

NextQuery ==
    \/ SearchTickets
    \/ ListApiRequests
    \/ CloseSession

SpecQuery == InitQuery /\ [][NextQuery]_vars

-----------------------------------------------------------------------------
(* The classifier alone, on texts put together from word fragments *)

Frags ==
    { <<"e","r","r","o","r">>, <<"e","x","c","e","p","t","i","o","n">>,
      <<"t","r","a","c","e","b","a","c","k">>, <<"s","t","a","c","k","t","r","a","c","e">>,
      <<"f","e","a","t","u","r","e">>, <<"e","n","h","a","n","c","e","m","e","n","t">>,
      <<"a","d","d">>, <<"s","u","p","p","o","r","t">>,
      <<"b","i","l","l">>, <<"i","n","v","o","i","c","e">>,
      <<"p","a","y","m","e","n","t">>, <<"c","h","a","r","g","e">>,
      <<"u","r","g","e","n","t">>, <<"a","s","a","p">>,
      <<"c","r","i","t","i","c","a","l">>, <<"d","o","w","n">>,
      <<"e","r","r">>, <<"o","r">>, <<"d","o">>, <<"w","n">>,
      <<"E","R","R","O","R">>, <<"B","i","l","l">>, <<"A","S","A","P">>,
      <<"h","i">>, <<" ">> }

\* Texts of at most n fragments
RECURSIVE Texts(_)
Texts(n) ==
    IF n = 0 THEN {<<>>}
    ELSE Texts(n - 1) \cup {t \o f : t \in Texts(n - 1), f \in Frags}

InitClassify ==
    /\ tickets = <<>>
    /\ requests = <<>>
    /\ now = 0
    /\ deletedIds = {}
    /\ sess = [s \in Sessions |-> NoCall]
    /\ last \in {[op |-> "call_classify_text", title |-> t, description |-> d] :
                    t \in Texts(MaxFrags), d \in Texts(1)}

Classify ==
    /\ last.op = "call_classify_text"
    /\ last' = [op |-> "classify_text", title |-> last.title,
                description |-> last.description,
                ret |-> classify_text(last.title, last.description)]
    /\ UNCHANGED <<tickets, requests, now, deletedIds, sess>>

NextClassify == Classify

SpecClassify == InitClassify /\ [][NextClassify]_vars

-----------------------------------------------------------------------------
(* Two requests on tickets handled at the same time, each in its own session.
   A session reads committed rows at the time of its SELECT (autoflush off, no
   transaction is held open by a read on SQLite); db.commit() flushes the
   session's changes and commits them as one step. *)

\* The calls the two workers are given
RaceCalls ==
    {[op |-> "get_ticket", id |-> ticket_id, arg |-> <<>>] : ticket_id \in TicketIds}
    \cup {[op |-> "update_ticket", id |-> ticket_id, arg |-> ticket_update] :
             ticket_id \in TicketIds, ticket_update \in UpdatePayloads}
    \cup {[op |-> "resolve_ticket", id |-> ticket_id, arg |-> <<>>] :
             ticket_id \in TicketIds}
    \cup {[op |-> "delete_ticket", id |-> ticket_id, arg |-> <<>>] :
             ticket_id \in TicketIds}

\* The object in the session once the call has assigned its attributes
Assigned(c, t) ==
    IF c.op = "update_ticket" THEN update_ticket(c.loaded, c.arg)
    ELSE IF c.op = "resolve_ticket" THEN resolve_ticket(c.loaded, t)
    ELSE c.loaded

\* The columns the flush writes: those whose value differs from the loaded one,
\* and a column assigned a SQL expression (resolved_at = func.now()).
Dirty(c, obj) ==
    {f \in DOMAIN c.loaded : obj[f] # c.loaded[f]}
    \cup (IF c.op = "resolve_ticket" THEN {"resolved_at"} ELSE {})

\* UPDATE tickets SET <dirty columns> WHERE id = ...
Flush(stored, obj, dirty) ==
    [f \in DOMAIN stored |-> IF f \in dirty THEN obj[f] ELSE stored[f]]

\* The place of a commit among the commits of the workers
CommitOrder == 1 + Cardinality({s \in Sessions : sess[s].order > 0})

\* get_db up to the yield: db = SessionLocal(), and the endpoint is entered
Open(s) ==
    /\ sess[s].pc = "idle"
    /\ \E call \in RaceCalls :
          sess' = [sess EXCEPT ![s] = [NoCall EXCEPT !.pc = "open", !.op = call.op,
                                                   !.id = call.id, !.arg = call.arg]]
    /\ UNCHANGED <<tickets, requests, now, last, deletedIds>>

\* ticket = get_ticket(db, ticket_id), and the return of a call that ends there
Load(s) ==
    LET c == sess[s]
        ticket == get_ticket(tickets, c.id)
    IN  /\ c.pc = "open"
        /\ IF ticket = None
           THEN sess' = [sess EXCEPT ![s] =
                            [c EXCEPT !.pc = "done", !.exit = "not_found",
                                      !.ret = IF c.op = "delete_ticket" THEN FALSE
                                              ELSE None]]
           ELSE IF c.op = "get_ticket"
           THEN sess' = [sess EXCEPT ![s] =
                            [c EXCEPT !.pc = "done", !.exit = "return", !.ret = ticket]]
           ELSE sess' = [sess EXCEPT ![s] = [c EXCEPT !.pc = "loaded", !.loaded = ticket]]
        /\ UNCHANGED <<tickets, requests, now, last, deletedIds>>

\* db.add(ticket) / db.delete(ticket); db.commit(), and delete_ticket's return
Commit(s) ==
    LET c == sess[s]
        obj == Assigned(c, now)
        dirty == Dirty(c, obj)
    IN  /\ c.pc = "loaded"
        /\ IF c.op = "delete_ticket"
           THEN \* a DELETE that matches no row is answered with a warning only
                /\ tickets' = IF c.id \in DOMAIN tickets THEN Remove(tickets, c.id)
                              ELSE tickets
                /\ deletedIds' = deletedIds \cup {c.id}
                /\ sess' = [sess EXCEPT ![s] =
                               [c EXCEPT !.pc = "done", !.exit = "return", !.ret = TRUE,
                                         !.order = CommitOrder]]
           ELSE IF dirty = {}
           THEN \* nothing to write
                /\ sess' = [sess EXCEPT ![s] =
                               [c EXCEPT !.pc = "committed", !.order = CommitOrder]]
                /\ UNCHANGED <<tickets, deletedIds>>
           ELSE IF c.id \notin DOMAIN tickets
           THEN \* the UPDATE matched no row: StaleDataError
                /\ sess' = [sess EXCEPT ![s] = [c EXCEPT !.pc = "done", !.exit = "error"]]
                /\ UNCHANGED <<tickets, deletedIds>>
           ELSE IF CommitFails(Flush(tickets[c.id], obj, dirty))
           THEN \* NOT NULL constraint failed: IntegrityError
                /\ sess' = [sess EXCEPT ![s] = [c EXCEPT !.pc = "done", !.exit = "error"]]
                /\ UNCHANGED <<tickets, deletedIds>>
           ELSE /\ tickets' = Insert(tickets, Flush(tickets[c.id], obj, dirty))
                /\ sess' = [sess EXCEPT ![s] =
                               [c EXCEPT !.pc = "committed", !.order = CommitOrder,
                                         !.stamp = now]]
                /\ UNCHANGED deletedIds
        /\ UNCHANGED <<requests, now, last>>

\* db.refresh(ticket); return ticket
Refresh(s) ==
    LET c == sess[s]
    IN  /\ c.pc = "committed"
        /\ IF c.id \in DOMAIN tickets
           THEN sess' = [sess EXCEPT ![s] =
                            [c EXCEPT !.pc = "done", !.exit = "return",
                                      !.ret = tickets[c.id]]]
           ELSE \* the row is gone: InvalidRequestError
                sess' = [sess EXCEPT ![s] = [c EXCEPT !.pc = "done", !.exit = "error"]]
        /\ UNCHANGED <<tickets, requests, now, last, deletedIds>>

\* The session closed only when the endpoint returned
CloseOnReturn(s) ==
    /\ sess[s].pc = "done"
    /\ sess[s].exit = "return"
    /\ sess' = [sess EXCEPT ![s] = [@ EXCEPT !.pc = "closed", !.closes = @ + 1]]
    /\ UNCHANGED <<tickets, requests, now, last, deletedIds>>

\* get_db after the yield, on return and on an exception alike: db.close()
Close(s) ==
    /\ sess[s].pc = "done"
    /\ sess' = [sess EXCEPT ![s] = [@ EXCEPT !.pc = "closed", !.closes = @ + 1]]
    /\ UNCHANGED <<tickets, requests, now, last, deletedIds>>

\* What a worker does once its request has come in
Run(s) == Load(s) \/ Commit(s) \/ Refresh(s) \/ Close(s)

\* The two requests come in with one ticket stored, or none: the races are
\* races on one ticket id.
InitRace ==
    /\ requests = <<>>
    /\ last = Idle
    /\ deletedIds = {}
    /\ sess = [s \in Sessions |-> NoCall]
    /\ \E s \in TicketStores(1) : tickets = s.db /\ now = s.t

NextRace ==
    \/ \E s \in Sessions : Open(s)
    \/ \E s \in Sessions : Load(s)
    \/ \E s \in Sessions : Commit(s)
    \/ \E s \in Sessions : Refresh(s)
    \/ \E s \in Sessions : Close(s)
    \/ Tick

SpecRace == InitRace /\ [][NextRace]_vars

\* The same two requests within one second of the clock
NextSession ==
    \/ \E s \in Sessions : Open(s)
    \/ \E s \in Sessions : Load(s)
    \/ \E s \in Sessions : Commit(s)
    \/ \E s \in Sessions : Refresh(s)
    \/ \E s \in Sessions : Close(s)

\* A worker thread that has a request runs it to its end.
SpecSession ==
    InitRace /\ [][NextSession]_vars /\ \A s \in Sessions : WF_vars(Run(s))

-----------------------------------------------------------------------------
(* Claims *)

\* C1 (as stated): in every reachable state every stored ticket has a non-null
\* resolved_at if and only if its status is resolved.
C1_ResolvedAtIffResolved ==
    \A id \in DOMAIN tickets :
        (tickets[id].resolved_at # NoneInt) <=> (tickets[id].status = "resolved")

\* The keyword lists as the classifier's contract words them.
C2_Bug == { <<"e","r","r","o","r">>, <<"e","x","c","e","p","t","i","o","n">>,
            <<"t","r","a","c","e","b","a","c","k">>,
            <<"s","t","a","c","k","t","r","a","c","e">> }
C2_Feature == { <<"f","e","a","t","u","r","e">>,
                <<"e","n","h","a","n","c","e","m","e","n","t">>,
                <<"a","d","d">>, <<"s","u","p","p","o","r","t">> }
C2_Billing == { <<"b","i","l","l">>, <<"i","n","v","o","i","c","e">>,
                <<"p","a","y","m","e","n","t">>, <<"c","h","a","r","g","e">> }
C3_High == { <<"u","r","g","e","n","t">>, <<"a","s","a","p">>,
             <<"c","r","i","t","i","c","a","l">>, <<"d","o","w","n">> }

HasAny(keys, text) == \E k \in keys : StrContains(text, k)

C2_FirstMatch(text) ==
    CASE HasAny(C2_Bug, text) -> "bug"
      [] ~HasAny(C2_Bug, text) /\ HasAny(C2_Feature, text) -> "feature_request"
      [] ~HasAny(C2_Bug, text) /\ ~HasAny(C2_Feature, text) /\ HasAny(C2_Billing, text)
            -> "billing"
      [] OTHER -> "support"

\* C2 (as stated): the category is the first match over the lower-cased
\* concatenation of title and description.
C2_CategoryOverConcatenation ==
    last.op = "classify_text" =>
        last.ret[1] = C2_FirstMatch(StrLower(last.title \o last.description))

\* C2 (amended): the category is the first match over the lower-cased text made
\* of the title, one space and the description.
C2_CategoryOverJoined ==
    last.op = "classify_text" =>
        last.ret[1] = C2_FirstMatch(StrLower(last.title \o <<" ">> \o last.description))

\* C2 witness: a text holding a bug keyword in capitals and a feature keyword
\* has been classified as bug.
C2_Witness ==
    /\ last.op = "classify_text"
    /\ last.title = <<"E","R","R","O","R">>
    /\ last.description = <<"a","d","d">>
    /\ last.ret[1] = "bug"

\* C3 (as stated): the priority is high exactly when the lower-cased
\* concatenation of title and description holds a priority keyword, medium
\* otherwise, whatever the category; never low.
C3_PriorityOverConcatenation ==
    last.op = "classify_text" =>
        /\ last.ret[2] = IF HasAny(C3_High, StrLower(last.title \o last.description))
                         THEN "high" ELSE "medium"
        /\ last.ret[2] # "low"

\* C3 (amended): the same over the lower-cased text made of the title, one
\* space and the description.
C3_PriorityOverJoined ==
    last.op = "classify_text" =>
        /\ last.ret[2] =
              IF HasAny(C3_High, StrLower(last.title \o <<" ">> \o last.description))
              THEN "high" ELSE "medium"
        /\ last.ret[2] # "low"

\* C3 witness: a keyword split between the end of the title and the start of
\* the description has been classified, and the priority is medium.
C3_Witness ==
    /\ last.op = "classify_text"
    /\ last.title = <<"d","o">>
    /\ last.description = <<"w","n">>
    /\ last.ret[2] = "medium"

\* C4: the ticket create returns is open, has no resolution timestamp and the
\* classifier's category and priority for its title and description (never
\* other, never low); a get of its id right after returns a record equal to it
\* on title, description, reporter contact, category, priority and status.
C4_CreateThenGet ==
    last.op = "create_ticket" =>
        LET t == last.ret
            g == get_ticket(tickets, t.id)
        IN  /\ t.status = "open"
            /\ t.resolved_at = NoneInt
            /\ <<t.category, t.priority>> =
                   classify_text(last.arg.title, last.arg.description)
            /\ t.category # "other"
            /\ t.priority # "low"
            /\ t.title = last.arg.title
            /\ t.description = last.arg.description
            /\ t.reporter_email = last.arg.reporter_email
            /\ g # None
            /\ \A f \in {"title", "description", "reporter_email", "category",
                          "priority", "status"} : g[f] = t[f]

\* C4 witness: a ticket has just been created and classified feature_request, high.
C4_Witness ==
    /\ last.op = "create_ticket"
    /\ last.ret.category = "feature_request"
    /\ last.ret.priority = "high"
    /\ get_ticket(tickets, last.ret.id) = last.ret

IsQuery == last.op \in {"search_tickets", "list_api_requests"}

\* The table a query read, its WHERE clause and its ORDER BY column
QueryDb == IF last.op = "search_tickets" THEN tickets ELSE requests

QueryWhere(row) ==
    IF last.op = "search_tickets" THEN TicketWhere(row, last.arg)
    ELSE ApiRequestWhere(row, last.arg)

QueryCol ==
    IF last.op = "search_tickets" THEN TicketSortCol(last.arg.sort_by)
    ELSE ApiRequestSortCol(last.arg.sort_by)

QueryMatched == {id \in DOMAIN QueryDb : QueryWhere(QueryDb[id])}

\* The same query run again with some of its arguments replaced, under the
\* store's row order `scan`
Rerun(q, scan) ==
    IF last.op = "search_tickets" THEN search_and_filter_tickets(tickets, q, scan)
    ELSE list_and_filter_api_requests(requests, q, scan)

\* C5: the total of a ticket search or request list is the number of stored
\* records that satisfy the query's filter, at every offset and limit, and every
\* returned item is a stored record that satisfies the same filter.
C5_TotalCountsFiltered ==
    IsQuery =>
        /\ last.ret.total = Cardinality(QueryMatched)
        /\ \A i \in DOMAIN last.ret.items :
              /\ last.ret.items[i].id \in DOMAIN QueryDb
              /\ QueryDb[last.ret.items[i].id] = last.ret.items[i]
              /\ QueryWhere(last.ret.items[i])

\* C5 witness: a query whose filter keeps one of two stored records has returned
\* no item, the offset being past the end, and the total is 1.
C5_Witness ==
    /\ IsQuery
    /\ Cardinality(DOMAIN QueryDb) = 2
    /\ last.ret.total = 1
    /\ last.arg.skip >= 1
    /\ last.ret.items = <<>>

Min(a, b) == IF a < b THEN a ELSE b
Max(a, b) == IF a > b THEN a ELSE b

\* C6: with offset >= 0 and limit >= 1 the items are the records at positions
\* offset+1 .. offset+limit of the filtered, ordered sequence, so
\* min(limit, max(0, total - offset)) of them, never more than limit.
C6_PageIsSlice ==
    (IsQuery /\ last.arg.skip >= 0 /\ last.arg.limit >= 1) =>
        LET ordered == OrderBy(QueryDb, QueryMatched, QueryCol, last.arg.sort_order,
                               last.scan)
            items == last.ret.items
        IN  /\ Len(items) = Min(last.arg.limit, Max(0, last.ret.total - last.arg.skip))
            /\ Len(items) <= last.arg.limit
            /\ \A i \in 1..Len(items) : items[i] = QueryDb[ordered[last.arg.skip + i]]

\* C6 witness: the second page of one record out of two matching records.
C6_Witness ==
    /\ IsQuery
    /\ last.ret.total = 2
    /\ last.arg.skip = 1
    /\ last.arg.limit = 1
    /\ Len(last.ret.items) = 1

SortAllowList ==
    IF last.op = "search_tickets" THEN {"created_at", "priority"}
    ELSE {"created_at", "response_time"}

\* C7: a query with a sort key outside the allow-list completes without error
\* and returns what the same query with sort key created_at returns, in the
\* same order; a sort direction other than asc gives what desc gives, the items
\* in descending order of the sort column.
C7_UnknownSortKeyFallsBack ==
    IsQuery =>
        /\ ~last.raised
        /\ last.arg.sort_by \notin SortAllowList =>
              last.ret = Rerun([last.arg EXCEPT !.sort_by = "created_at"], last.scan)
        /\ last.arg.sort_order # "asc" =>
              /\ last.ret = Rerun([last.arg EXCEPT !.sort_order = "desc"], last.scan)
              /\ \A i, j \in DOMAIN last.ret.items :
                    i < j => SortKey(last.ret.items[i], QueryCol)
                               >= SortKey(last.ret.items[j], QueryCol)

\* C7 witness: a ticket search with sort key "title" has returned two tickets,
\* the later created first, although the earlier one sorts first by priority.
C7_Witness ==
    /\ last.op = "search_tickets"
    /\ last.arg.sort_by = "title"
    /\ last.arg.sort_order = "ASC"
    /\ Len(last.ret.items) = 2
    /\ last.ret.items[1].created_at > last.ret.items[2].created_at
    /\ PriorityText(last.ret.items[1].priority) < PriorityText(last.ret.items[2].priority)

\* C8 (as stated): a query's result is fixed by the store content and the query:
\* whatever order the store returns equal rows in, the items are the same, and
\* records with equal sort values come in ascending order of id.
C8_DeterministicOrder ==
    IsQuery =>
        /\ \A scan \in ScanOrders(QueryDb) : Rerun(last.arg, scan) = last.ret
        /\ \A i, j \in DOMAIN last.ret.items :
              (i < j /\ SortKey(last.ret.items[i], QueryCol)
                          = SortKey(last.ret.items[j], QueryCol))
                  => last.ret.items[i].id < last.ret.items[j].id

\* C9 (as stated): delete_ticket returns True at most once for an id: once it
\* has returned True for an id, every later delete of that id returns False.
C9_DeleteTrueOnce ==
    [][(last'.op = "delete_ticket" /\ last.op = "none")
          => (last'.id \in deletedIds => last'.ret = FALSE)]_vars

\* C10 (as stated): an update of a stored ticket sets every supplied field to the
\* supplied value, leaves the ticket's other fields and all other tickets as
\* they were, and returns the ticket; with no field supplied nothing changes.
C10_UpdateSetsSupplied ==
    [][(last'.op = "update_ticket" /\ last.op = "none" /\ last'.id \in DOMAIN tickets)
          => /\ DOMAIN tickets' = DOMAIN tickets
             /\ \A k \in DOMAIN tickets \ {last'.id} : tickets'[k] = tickets[k]
             /\ \A f \in DOMAIN tickets[last'.id] :
                   tickets'[last'.id][f] =
                       IF f \in DOMAIN last'.arg THEN last'.arg[f]
                       ELSE tickets[last'.id][f]
             /\ ~last'.raised
             /\ last'.ret = tickets'[last'.id]]_vars

\* C11: a resolve of a stored ticket, open or already resolved, returns the
\* ticket with status resolved and a resolution timestamp, and changes no field
\* of it other than status and the resolution timestamp (and no other ticket).
C11_ResolveWritesStatusAndStamp ==
    [][(last'.op = "resolve_ticket" /\ last.op = "none" /\ last'.id \in DOMAIN tickets)
          => /\ ~last'.raised
             /\ DOMAIN tickets' = DOMAIN tickets
             /\ last'.ret = tickets'[last'.id]
             /\ last'.ret.status = "resolved"
             /\ last'.ret.resolved_at # NoneInt
             /\ \A f \in DOMAIN tickets[last'.id] \ {"status", "resolved_at"} :
                   tickets'[last'.id][f] = tickets[last'.id][f]
             /\ \A k \in DOMAIN tickets \ {last'.id} : tickets'[k] = tickets[k]]_vars

\* C11 witness: a resolve has returned a ticket stamped after its creation.
C11_Witness ==
    /\ last.op = "resolve_ticket"
    /\ last.id \in DOMAIN tickets
    /\ last.ret = tickets[last.id]
    /\ last.ret.status = "resolved"
    /\ last.ret.resolved_at > last.ret.created_at

\* Text a contains text b as a literal substring, letter case ignored
ContainsIgnoringCase(a, b) == StrContains(StrLower(a), StrLower(b))

\* C12 (as stated): a request list with a method filter returns exactly the
\* records whose stored method equals the filter value with letter case ignored
\* (and that pass the query's other filters).
C12_MethodIgnoresCase ==
    (last.op = "list_api_requests" /\ last.arg.method # NoneStr) =>
        LET others == [last.arg EXCEPT !.method = NoneStr]
            wanted == {id \in DOMAIN requests :
                          /\ StrLower(requests[id].method) = StrLower(last.arg.method)
                          /\ ApiRequestWhere(requests[id], others)}
        IN  /\ last.ret.total = Cardinality(wanted)
            /\ \A i \in DOMAIN last.ret.items : last.ret.items[i].id \in wanted

\* C13 (as stated): a record is returned by the request list only if it passes
\* every supplied filter: its response_code is the supplied code, its
\* response_time is within each supplied bound (a bound of 0 included), and its
\* path contains the supplied text, letter case ignored.
C13_EverySuppliedFilterRestricts ==
    last.op = "list_api_requests" =>
        \A i \in DOMAIN last.ret.items :
            LET row == last.ret.items[i]
                q == last.arg
            IN  /\ q.response_code # NoneInt => row.response_code = q.response_code
                /\ q.min_response_time # NoneInt => row.response_time >= q.min_response_time
                /\ q.max_response_time # NoneInt => row.response_time <= q.max_response_time
                /\ q.path_contains # NoneStr =>
                      ContainsIgnoringCase(row.path, q.path_contains)

\* The tickets a search is to return, as the contract words it
C14_Matches(row, q) ==
    /\ q.category # NoneEnum => row.category = q.category
    /\ q.status # NoneEnum => row.status = q.status
    /\ q.priority # NoneEnum => row.priority = q.priority
    /\ q.search # NoneStr =>
          \/ ContainsIgnoringCase(row.title, q.search)
          \/ ContainsIgnoringCase(row.description, q.search)

\* C14 (as stated): a ticket search returns exactly the tickets that pass every
\* supplied equality filter and, with a search term supplied, hold the term as a
\* literal substring of the title or of the description, letter case ignored.
C14_SearchIsLiteralSubstring ==
    last.op = "search_tickets" =>
        LET wanted == {id \in DOMAIN tickets : C14_Matches(tickets[id], last.arg)}
        IN  /\ last.ret.total = Cardinality(wanted)
            /\ \A i \in DOMAIN last.ret.items : last.ret.items[i].id \in wanted

\* C15: a get, update or resolve of a ticket id, and a get of a request id, that
\* matches no stored record returns the absent result, raises nothing and leaves
\* both tables as they were.
C15_AbsentIdReturnsNone ==
    [][(/\ last.op = "none"
        /\ \/ /\ last'.op \in {"get_ticket", "update_ticket", "resolve_ticket"}
              /\ last'.id \notin DOMAIN tickets
           \/ /\ last'.op = "get_api_request"
              /\ last'.id \notin DOMAIN requests)
          => /\ last'.ret = None
             /\ ~last'.raised
             /\ tickets' = tickets
             /\ requests' = requests]_vars

\* C15 witness: with tickets and request records stored, a get of a request id
\* that no record has returned the absent result.
C15_Witness ==
    /\ last.op = "get_api_request"
    /\ last.id \notin DOMAIN requests
    /\ last.ret = None
    /\ requests # <<>>
    /\ tickets # <<>>

\* C16: no step of either service changes or removes a stored request record.
C16_RequestRecordsImmutable ==
    [][\A id \in DOMAIN requests :
          /\ id \in DOMAIN requests'
          /\ requests'[id] = requests[id]]_vars

\* C16 witness: two request records are stored as submitted and a ticket has
\* been deleted since.
C16_Witness ==
    /\ Cardinality(DOMAIN requests) = 2
    /\ \A id \in DOMAIN requests :
          \E request_in \in ApiRequestInputs :
              \A f \in DOMAIN request_in : requests[id][f] = request_in[f]
    /\ deletedIds # {}
    /\ last.op = "update_ticket"

\* C17: a session opened for a request is closed exactly once, whichever way
\* the call ends (return, not found, failure in the service call): it is never
\* closed twice, is closed only after the call has ended, and every opened
\* session is closed in the end.
C17_SessionClosedOnce ==
    /\ [](\A s \in Sessions :
             /\ sess[s].closes <= 1
             /\ sess[s].closes = 1 <=> sess[s].pc = "closed"
             /\ sess[s].pc = "closed" => sess[s].exit \in {"return", "not_found", "error"})
    /\ \A s \in Sessions : (sess[s].pc # "idle") ~> (sess[s].pc = "closed")

\* C17 witness: one session has been closed after a failure in the service call
\* and the other after a not-found result.
C17_Witness ==
    \E s, t \in Sessions :
        /\ sess[s].pc = "closed" /\ sess[s].exit = "error" /\ sess[s].closes = 1
        /\ sess[t].pc = "closed" /\ sess[t].exit = "not_found" /\ sess[t].closes = 1

\* A worker's call has ended
Ended(c) == c.pc \in {"done", "closed"}

\* An update body with no null for a column that must not be null
NoNullSupplied(c) ==
    c.op = "update_ticket" =>
        \A f \in DOMAIN c.arg \cap TicketNotNull : c.arg[f] # NullOf(f)

\* The fields a call writes, and the values it writes to them
Written(c) ==
    IF c.op = "update_ticket" THEN DOMAIN c.arg ELSE {"status", "resolved_at"}

WrittenValue(c, f) ==
    IF c.op = "update_ticket" THEN c.arg[f]
    ELSE IF f = "status" THEN "resolved"
    ELSE c.stamp

\* C18 (as stated): two updates or resolves of one stored ticket, run at the
\* same time in two sessions, both return without error, and every field both
\* have written holds the value written by the one that committed last.
C18_LastWriterWins ==
    \A s, t \in Sessions :
        (/\ s # t
         /\ sess[s].op \in {"update_ticket", "resolve_ticket"}
         /\ sess[t].op \in {"update_ticket", "resolve_ticket"}
         /\ sess[s].id = sess[t].id
         /\ Ended(sess[s]) /\ Ended(sess[t])
         /\ sess[s].loaded # None /\ sess[t].loaded # None
         /\ NoNullSupplied(sess[s]) /\ NoNullSupplied(sess[t]))
        => /\ sess[s].exit = "return"
           /\ sess[t].exit = "return"
           /\ sess[s].id \in DOMAIN tickets
           /\ sess[s].order > sess[t].order =>
                 \A f \in Written(sess[s]) \cap Written(sess[t]) :
                     tickets[sess[s].id][f] = WrittenValue(sess[s], f)

\* C19 (as stated): when a delete of a ticket id runs at the same time as an
\* update, a resolve or a second delete of that id, no call fails, at most one
\* of two deletes returns True, and a ticket whose delete returned True is not
\* stored once both calls have ended.
C19_DeleteRaceNeverFails ==
    \A s, t \in Sessions :
        (/\ s # t
         /\ sess[s].op = "delete_ticket"
         /\ sess[t].op \in {"update_ticket", "resolve_ticket", "delete_ticket"}
         /\ sess[s].id = sess[t].id
         /\ Ended(sess[s]) /\ Ended(sess[t])
         /\ NoNullSupplied(sess[t]))
        => /\ sess[s].exit # "error"
           /\ sess[t].exit # "error"
           /\ sess[t].op = "delete_ticket" => ~(sess[s].ret = TRUE /\ sess[t].ret = TRUE)
           /\ sess[s].ret = TRUE => sess[s].id \notin DOMAIN tickets

=============================================================================
